---- MODULE Spec2Model ----
(***************************************************************************)
(* Model of the MU telemetry helper (RustMuTelemetryHelperLib) and of the  *)
(* entry point of the HID driver that uses it (UefiHidDxeV2).              *)
(*                                                                         *)
(* Values wider than 31 bits (u32 status-code types and values, u64 extra  *)
(* data) are kept as tuples of bytes, most significant byte first, as they *)
(* are written in the source; memory images are tuples of bytes in address *)
(* order (the targets are little-endian).                                  *)
(***************************************************************************)
EXTENDS Integers, Sequences, FiniteSets, TLC

VARIABLES
    target,         \* "uefi": the driver image; "host": the std build of the crate (cargo test)
    directory,      \* the platform's protocol database entry for the status code protocol
    efi_pc,         \* position of efi_main in the driver image
    efi_ret,        \* Option<efi::Status> returned by efi_main
    reports,        \* number of report calls made in this session
    lookups,        \* number of locate_protocol calls made in this session
    found_lookups,  \* number of locate_protocol calls that yielded an interface
    not_found_seen, \* some report of this session has failed with NOT_FOUND
    last,           \* the most recent report call: its arguments, what it did, how it ended
    pending,        \* Option: the report_status_code::<T> call a caller is about to make
    hid             \* the driver's UefiReceivers factory, the boxes allocated, the lists it returned

vars == <<target, directory, efi_pc, efi_ret, reports, lookups, found_lookups,
          not_found_seen, last, pending, hid>>

-----------------------------------------------------------------------------
(* Bounds of the model *)

\* report calls per session
MaxReports == 2

\* generic payload types T have size_of::<T>() in 0..MaxSmallSize, besides the sizes around 2^16
MaxSmallSize == 3

\* generic payload sizes reach 2^16 - 1 + MaxOverflow
MaxOverflow == 1

\* new_hid_receiver_list calls per session
MaxReceiverCalls == 3

-----------------------------------------------------------------------------
(* Option<T>: None or Some(x) *)

None == <<>>

Some(x) == <<x>>

\* Option::unwrap_or
unwrap_or(opt, default) == IF opt = None THEN default ELSE opt[1]

-----------------------------------------------------------------------------
(* Bytes and integers *)

RECURSIVE BitOr(_, _)
\* bitwise or of two naturals
BitOr(a, b) ==
    IF a = 0 THEN b
    ELSE IF b = 0 THEN a
    ELSE (IF (a % 2 = 1) \/ (b % 2 = 1) THEN 1 ELSE 0) + 2 * BitOr(a \div 2, b \div 2)

\* `|` on two integers given as byte tuples of the same width
WordOr(x, y) == [i \in DOMAIN x |-> BitOr(x[i], y[i])]

\* `as u16`: truncation of a usize to 16 bits
as_u16(n) == n % 65536

\* memory image of a u16
u16_bytes(v) == <<v % 256, (v \div 256) % 256>>

\* the u16 stored in two bytes of memory
u16_at(buf, off) == buf[off + 1] + 256 * buf[off + 2]

\* memory image of an integer given most significant byte first
le_bytes(x) == [i \in 1..Len(x) |-> x[Len(x) + 1 - i]]

\* bytes [from, to) of a buffer, offsets counted from 0
Slice(buf, from, to) == SubSeq(buf, from + 1, to)

-----------------------------------------------------------------------------
(* GUIDs: an efi::Guid is its 16 bytes of memory *)

\* guid!("aabbccdd-eeff-gghh-iijj-kkllmmnnoopp"): time_low, time_mid and
\* time_hi_and_version are stored little-endian, the rest in text order
guid(t) == <<t[4], t[3], t[2], t[1], t[6], t[5], t[8], t[7],
             t[9], t[10], t[11], t[12], t[13], t[14], t[15], t[16]>>

\* guid::ZERO
ZERO == [i \in 1..16 |-> 0]

\* guid::CALLER_ID, the identity of the module the library is linked into
CALLER_ID == guid(<<202, 17, 224, 1, 202, 17, 224, 2, 202, 17, 224, 3, 202, 17, 224, 4>>)

\* 91DEEA05-8C0A-4DCD-B91E-F21CA0C68405
MS_WHEA_RSC_DATA_TYPE_GUID ==
    guid(<<145, 222, 234, 5, 140, 10, 77, 205, 185, 30, 242, 28, 160, 198, 132, 5>>)

\* d0d1d2d3-d4d5-d6d7-d8d9-dadbdcdddedf
MOCK_CALLER_ID ==
    guid(<<208, 209, 210, 211, 212, 213, 214, 215, 216, 217, 218, 219, 220, 221, 222, 223>>)

\* e0e1e2e3-e4e5-e6e7-e8e9-eaebecedeeef
MOCK_LIBRARY_ID ==
    guid(<<224, 225, 226, 227, 228, 229, 230, 231, 232, 233, 234, 235, 236, 237, 238, 239>>)

\* f0f1f2f3-f4f5-f6f7-f8f9-fafbfcfdfeff
MOCK_IHV_ID ==
    guid(<<240, 241, 242, 243, 244, 245, 246, 247, 248, 249, 250, 251, 252, 253, 254, 255>>)

\* 8116C328-3DDD-4BB5-A7B0-2098E5E32979
HID_LIBRARY_ID ==
    guid(<<129, 22, 195, 40, 61, 221, 75, 181, 167, 176, 32, 152, 229, 227, 41, 121>>)

\* 347DFE49-9998-4BB1-A152-536FBEDAB6AD
HID_IHV_ID ==
    guid(<<52, 125, 254, 73, 153, 152, 75, 177, 161, 82, 83, 111, 190, 218, 182, 173>>)

-----------------------------------------------------------------------------
(* Status codes *)

\* efi::Status: the error bit (the top bit of the usize) and the code below it
SUCCESS == [err |-> FALSE, code |-> 0]

WARN_WRITE_FAILURE == [err |-> FALSE, code |-> 3]

DEVICE_ERROR == [err |-> TRUE, code |-> 7]

NOT_FOUND == [err |-> TRUE, code |-> 14]

\* efi::Status::is_error
is_error(status) == status.err

\* EFI_ERROR_CODE = 0x00000002
EFI_ERROR_CODE == <<0, 0, 0, 2>>

\* EFI_ERROR_MINOR = 0x40000000
EFI_ERROR_MINOR == <<64, 0, 0, 0>>

\* EFI_ERROR_MAJOR = 0x80000000
EFI_ERROR_MAJOR == <<128, 0, 0, 0>>

MS_WHEA_ERROR_STATUS_TYPE_INFO == WordOr(EFI_ERROR_MINOR, EFI_ERROR_CODE)

MS_WHEA_ERROR_STATUS_TYPE_FATAL == WordOr(EFI_ERROR_MAJOR, EFI_ERROR_CODE)

-----------------------------------------------------------------------------
(* The extended data record *)

\* mem::size_of::<EfiStatusCodeData>(): #[repr(C)] { header_size: u16, size: u16, type: Guid }
SizeOfEfiStatusCodeData == 2 + 2 + 16

\* memory image of an EfiStatusCodeData
EfiStatusCodeData_bytes(header) ==
    u16_bytes(header.header_size) \o u16_bytes(header.size) \o header.type

\* mem::size_of::<MsWheaRscInternalErrorData>(): two Guids and two u64, #[repr(C)]
SizeOfMsWheaRscInternalErrorData == 16 + 16 + 8 + 8

\* memory image of a #[repr(C)] MsWheaRscInternalErrorData
MsWheaRscInternalErrorData_bytes(d) ==
    d.library_id \o d.ihv_sharing_guid
        \o le_bytes(d.additional_info_1) \o le_bytes(d.additional_info_2)

\* vec![0u8; n]
zeroed(n) == [i \in 1..n |-> 0]

\* ptr::write / ptr::write_unaligned: the size bytes of a value's memory image
\* stored at a byte offset of the buffer
ptr_write(buf, off, size, bytes) ==
    [i \in DOMAIN buf |->
        IF i > off /\ i <= off + size THEN bytes[i - off] ELSE buf[i]]

\* variant: the payload placed at the next 8-byte boundary
data_ptr_aligned == SizeOfEfiStatusCodeData + 4

\* data_ptr.add(1) as *mut T: the byte offset one EfiStatusCodeData past the start
data_ptr_add_1 == SizeOfEfiStatusCodeData

-----------------------------------------------------------------------------
(* Result<(), efi::Status> *)

Ok == <<"Ok">>

Err(status) == <<"Err", status>>

-----------------------------------------------------------------------------
(* report_status_code *)

\* BootServices::locate_protocol(&StatusCodeRuntimeProtocol, None) against the database:
\* Err(NOT_FOUND) when nothing is installed, Ok(None) for a null interface pointer
locate_protocol(dir) ==
    CASE dir = "absent" -> [ok |-> FALSE, status |-> NOT_FOUND, interface |-> None]
      [] dir = "null_interface" -> [ok |-> TRUE, status |-> SUCCESS, interface |-> None]
      [] dir = "present" -> [ok |-> TRUE, status |-> SUCCESS, interface |-> Some("report_status_code")]

\* what a call that ended before reaching the service leaves behind
early_return(result) ==
    [located |-> FALSE, record |-> <<>>, calls |-> <<>>, service_status |-> None,
     outcome |-> "returned", result |-> Some(result)]

\* the arguments of a report_status_code call, the payload by its size
request_of(status_code_type, status_code_value, instance, caller_id, data_type, data_size) ==
    [status_code_type |-> status_code_type, status_code_value |-> status_code_value,
     instance |-> instance, caller_id |-> caller_id, data_type |-> data_type,
     data_size |-> data_size]

\* variant: the interface used unchecked
protocol_unchecked(protocol) == FALSE

\* protocol.is_none()
protocol_is_none(protocol) == protocol.interface = None

\* variant: a handle located by an earlier call of the session is reused
resolve_protocol_cached(dir, session) ==
    IF session.found_lookups > 0
    THEN [protocol |-> locate_protocol("present"), lookups |-> 0]
    ELSE [protocol |-> locate_protocol(dir), lookups |-> 1]

\* variant: an absence found by an earlier call of the session is remembered
resolve_protocol_absence_kept(dir, session) ==
    IF session.not_found_seen
    THEN [protocol |-> locate_protocol("absent"), lookups |-> 0]
    ELSE [protocol |-> locate_protocol(dir), lookups |-> 1]

\* let protocol = boot_services.locate_protocol(..)?: the first statement of every
\* call. Nothing an earlier call of the session found (session) is kept or consulted.
resolve_protocol(dir, session) == [protocol |-> locate_protocol(dir), lookups |-> 1]

\* variant: caller_id.map_or(ptr::null(), ..), a missing caller_id handed over as null
resolve_caller_id_or_null(caller_id) == caller_id

\* caller_id.or(Some(&guid::CALLER_ID)).unwrap(), handed over as a pointer (None: null)
resolve_caller_id(caller_id) == Some(unwrap_or(caller_id, CALLER_ID))

\* the header written in front of a payload of data_size bytes
make_header(header_size, data_size, data_type) ==
    [header_size |-> as_u16(header_size), size |-> as_u16(data_size), type |-> data_type]

\* the record buffer: allocation, header at the start, payload one header further.
\* The header goes in by an aligned ptr::write into a Vec<u8>; the allocators of
\* both builds hand out blocks aligned to 8 bytes or more, so the write lands at
\* offset 0 as written.
build_record(header_size, data_size, data_type, data) ==
    LET header == make_header(header_size, data_size, data_type)
        data_buffer == zeroed(header_size + data_size)
        with_header == ptr_write(data_buffer, 0, SizeOfEfiStatusCodeData,
                                 EfiStatusCodeData_bytes(header))
    IN  ptr_write(with_header, data_ptr_add_1, data_size, data)

\* assert!(false) after the service call. (The debugln! before it reads 68 bytes
\* of the buffer whatever T is; it changes nothing and the assertion follows it.)
post_call_assertion == FALSE

\* if status.is_error() { Err(status) } else { Ok(()) }
status_to_result(status) == IF is_error(status) THEN Err(status) ELSE Ok

\* StatusCodeRuntimeProtocol::report_status_code::<T, B>; size_of_T is
\* mem::size_of::<T>(), data the memory image of the T passed by value,
\* service_status what the located service answers
report_status_code(session, dir, service_status, status_code_type, status_code_value, instance, caller_id, data_type, size_of_T, data) ==
    LET resolved == resolve_protocol(dir, session)
        protocol == resolved.protocol
        looked_up ==
            [lookups |-> resolved.lookups,
             request |-> request_of(status_code_type, status_code_value, instance,
                                    caller_id, data_type, size_of_T)]
    IN
    IF ~protocol.ok THEN looked_up @@ early_return(Err(protocol.status))
    ELSE IF protocol_is_none(protocol) THEN looked_up @@ early_return(Err(NOT_FOUND))
    ELSE
        LET header_size == SizeOfEfiStatusCodeData
            data_size == size_of_T
            data_buffer == build_record(header_size, data_size, data_type, data)
            call == [type |-> status_code_type, value |-> status_code_value,
                     instance |-> instance, caller_id |-> resolve_caller_id(caller_id),
                     data |-> data_buffer]
            status == service_status
        IN  looked_up @@
            [located |-> TRUE, record |-> data_buffer, calls |-> <<call>>,
             service_status |-> Some(status),
             outcome |-> IF post_call_assertion THEN "returned" ELSE "panicked",
             result |-> IF post_call_assertion THEN Some(status_to_result(status)) ELSE None]

-----------------------------------------------------------------------------
(* log_telemetry *)

\* variant: the two severities exchanged
status_code_type_of_swapped(is_fatal) ==
    IF is_fatal THEN MS_WHEA_ERROR_STATUS_TYPE_INFO ELSE MS_WHEA_ERROR_STATUS_TYPE_FATAL

\* if is_fatal { MS_WHEA_ERROR_STATUS_TYPE_FATAL } else { MS_WHEA_ERROR_STATUS_TYPE_INFO }
status_code_type_of(is_fatal) ==
    IF is_fatal THEN MS_WHEA_ERROR_STATUS_TYPE_FATAL ELSE MS_WHEA_ERROR_STATUS_TYPE_INFO

\* variant: library_id used for both GUID fields
make_error_data_same_id(library_id, ihv_id, extra_data1, extra_data2) ==
    [library_id |-> unwrap_or(library_id, ZERO),
     ihv_sharing_guid |-> unwrap_or(library_id, ZERO),
     additional_info_1 |-> extra_data1,
     additional_info_2 |-> extra_data2]

\* the MsWheaRscInternalErrorData built from the caller's arguments
make_error_data(library_id, ihv_id, extra_data1, extra_data2) ==
    [library_id |-> unwrap_or(library_id, ZERO),
     ihv_sharing_guid |-> unwrap_or(ihv_id, ZERO),
     additional_info_1 |-> extra_data1,
     additional_info_2 |-> extra_data2]

\* log_telemetry_internal(boot_services, ...), a being the caller's arguments
log_telemetry_internal(session, dir, service_status, a) ==
    LET error_data == make_error_data(a.library_id, a.ihv_id, a.extra_data1, a.extra_data2)
    IN  report_status_code(session, dir, service_status, status_code_type_of(a.is_fatal), a.class_id,
                           <<0, 0, 0, 0>>, a.component_id, MS_WHEA_RSC_DATA_TYPE_GUID,
                           SizeOfMsWheaRscInternalErrorData,
                           MsWheaRscInternalErrorData_bytes(error_data))

-----------------------------------------------------------------------------
(* Inputs *)

\* EfiStatusCodeValue arguments: 0xA0A1A2A3 of the test and another one
ClassIds == {<<160, 161, 162, 163>>, <<0, 0, 0, 1>>}

\* (extra_data1, extra_data2): 0xB0B1B2B3B4B5B6B7 and 0xC0C1C2C3C4C5C6C7 of the test; 0 and 1
ExtraData ==
    {<<(<<176, 177, 178, 179, 180, 181, 182, 183>>), (<<192, 193, 194, 195, 196, 197, 198, 199>>)>>,
     <<(<<0, 0, 0, 0, 0, 0, 0, 0>>), (<<0, 0, 0, 0, 0, 0, 0, 1>>)>>}

ComponentIds == {None, Some(MOCK_CALLER_ID), Some(ZERO)}

LibraryIds == {None, Some(MOCK_LIBRARY_ID)}

IhvIds == {None, Some(MOCK_IHV_ID)}

\* the arguments of a log_telemetry call
TelemetryArgs ==
    {[is_fatal |-> f, class_id |-> c, extra_data1 |-> e[1], extra_data2 |-> e[2],
      component_id |-> comp, library_id |-> lib, ihv_id |-> ihv] :
        f \in BOOLEAN, c \in ClassIds, e \in ExtraData, comp \in ComponentIds,
        lib \in LibraryIds, ihv \in IhvIds}

\* size_of::<T>() of the payload types of a generic report_status_code::<T> call:
\* small ones, the 48 bytes of MsWheaRscInternalErrorData, and those around the u16 limit
PayloadSizes == (0..MaxSmallSize) \cup {48} \cup (65535..(65535 + MaxOverflow))

\* the memory image of some T of the given size
payload_image(size) == [i \in 1..size |-> (160 + i) % 256]

\* data_type arguments of generic calls
DataTypes == {MS_WHEA_RSC_DATA_TYPE_GUID, MOCK_IHV_ID}

\* the generic calls a caller may make
GenericRequests ==
    {request_of(MS_WHEA_ERROR_STATUS_TYPE_INFO, <<160, 161, 162, 163>>, <<0, 0, 0, 0>>,
                None, data_type, size) :
        data_type \in DataTypes, size \in PayloadSizes}

\* what the located service may answer: success, a warning, an error
ServiceStatuses == {SUCCESS, WARN_WRITE_FAILURE, DEVICE_ERROR}

\* the states of the protocol database entry
DirectoryStates == {"absent", "null_interface", "present"}

\* log_telemetry(false, 0xA1A2A3A4, 0xB1B2B3B4B5B6B7B8, 0xC1C2C3C4C5C6C7C8, None, None, None)
efi_main_info_args ==
    [is_fatal |-> FALSE, class_id |-> <<161, 162, 163, 164>>,
     extra_data1 |-> <<177, 178, 179, 180, 181, 182, 183, 184>>,
     extra_data2 |-> <<193, 194, 195, 196, 197, 198, 199, 200>>,
     component_id |-> None, library_id |-> None, ihv_id |-> None]

\* log_telemetry(true, 0xD1D2D3D4, 0xE1E2E3E4E5E6E7E8, 0xF1F2F3F4F5F6F7F8, None, Some(..), Some(..))
efi_main_fatal_args ==
    [is_fatal |-> TRUE, class_id |-> <<209, 210, 211, 212>>,
     extra_data1 |-> <<225, 226, 227, 228, 229, 230, 231, 232>>,
     extra_data2 |-> <<241, 242, 243, 244, 245, 246, 247, 248>>,
     component_id |-> None, library_id |-> Some(HID_LIBRARY_ID),
     ihv_id |-> Some(HID_IHV_ID)]

\* the arguments recorded for a call that did not come through log_telemetry
no_args ==
    [is_fatal |-> FALSE, class_id |-> <<0, 0, 0, 0>>,
     extra_data1 |-> <<0, 0, 0, 0, 0, 0, 0, 0>>, extra_data2 |-> <<0, 0, 0, 0, 0, 0, 0, 0>>,
     component_id |-> None, library_id |-> None, ihv_id |-> None]

-----------------------------------------------------------------------------
(* The receiver factory of the HID driver *)

\* efi::Handle values: image handles and controller handles
Handles == {"handle_1", "handle_2", "handle_3"}

\* Ok(value)
Ok_of(value) == <<"Ok", value>>

\* PointerHidHandler::new(boot_services, agent): a handler with no device state yet
PointerHidHandler_new(boot_services, agent) ==
    [kind |-> "pointer", boot_services |-> boot_services, agent |-> agent]

\* KeyboardHidHandler::new(boot_services, agent): a handler with no device state yet
KeyboardHidHandler_new(boot_services, agent) ==
    [kind |-> "keyboard", boot_services |-> boot_services, agent |-> agent]

\* variant: the handlers kept in one place and handed out again
Box_shared(allocated, value) == [instance |-> 0, value |-> value]

\* Box::new(value): a heap allocation of its own, the allocated-th of the session
Box_new(allocated, value) == [instance |-> allocated, value |-> value]

\* UefiReceivers { boot_services: &BOOT_SERVICES, agent: image_handle }, and the
\* session's allocations and returned lists so far
UefiReceivers(image_handle) ==
    [boot_services |-> "BOOT_SERVICES", agent |-> Some(image_handle), allocated |-> 0,
     returned |-> <<>>]

\* the std build has no uefi_entry module
no_receivers ==
    [boot_services |-> "BOOT_SERVICES", agent |-> None, allocated |-> 0, returned |-> <<>>]

\* UefiReceivers::new_hid_receiver_list(&self, _controller): the list returned
hid_receiver_list(self, _controller) ==
    LET empty == <<>>
        with_pointer ==
            Append(empty, Box_new(self.allocated,
                                  PointerHidHandler_new(self.boot_services, self.agent[1])))
        receivers ==
            Append(with_pointer, Box_new(self.allocated + 1,
                                         KeyboardHidHandler_new(self.boot_services, self.agent[1])))
    IN  Ok_of(receivers)

-----------------------------------------------------------------------------
(* The state machine *)

\* what the session remembers of its earlier calls (the code keeps none of it)
session_so_far == [found_lookups |-> found_lookups, not_found_seen |-> not_found_seen]

\* before any report
no_report ==
    [kind |-> "none", args |-> no_args, lookups |-> 0,
     request |-> request_of(<<0, 0, 0, 0>>, <<0, 0, 0, 0>>, <<0, 0, 0, 0>>, None, ZERO, 0)]
        @@ early_return(Ok)

Init ==
    /\ target \in {"uefi", "host"}
    /\ directory \in DirectoryStates
    /\ efi_pc = IF target = "uefi" THEN "entry" ELSE "absent"
    /\ efi_ret = None
    /\ reports = 0
    /\ lookups = 0
    /\ found_lookups = 0
    /\ not_found_seen = FALSE
    /\ last = no_report
    /\ pending = None
    /\ hid \in (IF target = "uefi" THEN {UefiReceivers(agent) : agent \in Handles}
                ELSE {no_receivers})

\* the bookkeeping of one report call that ended as r
account(kind, args, r) ==
    /\ last' = [kind |-> kind, args |-> args] @@ r
    /\ reports' = reports + 1
    /\ lookups' = lookups + r.lookups
    /\ found_lookups' = found_lookups + (IF r.located THEN r.lookups ELSE 0)
    /\ not_found_seen' = (not_found_seen \/ r.result = Some(Err(NOT_FOUND)))

\* a platform driver installs the status code protocol
InstallProtocol ==
    /\ directory = "absent"
    /\ directory' \in {"present", "null_interface"}
    /\ UNCHANGED <<target, efi_pc, efi_ret, reports, lookups, found_lookups,
                   not_found_seen, last, pending, hid>>

\* the status code protocol is uninstalled
UninstallProtocol ==
    /\ directory # "absent"
    /\ directory' = "absent"
    /\ UNCHANGED <<target, efi_pc, efi_ret, reports, lookups, found_lookups,
                   not_found_seen, last, pending, hid>>

\* a caller of the std build (a test such as try_log_telemetry) calls
\* log_telemetry_internal; a panic unwinds to the harness and the process goes on
host_log_telemetry ==
    /\ target = "host"
    /\ reports < MaxReports
    /\ \E a \in TelemetryArgs, st \in ServiceStatuses :
          account("telemetry", a, log_telemetry_internal(session_so_far, directory, st, a))
    /\ UNCHANGED <<target, directory, efi_pc, efi_ret, pending, hid>>

\* a caller of the std build makes its pending report_status_code::<T> call,
\* the payload a T of the requested size
host_report_status_code ==
    /\ target = "host"
    /\ pending # None
    /\ \E st \in {SUCCESS, DEVICE_ERROR} :
          LET q == pending[1] IN
          account("generic", no_args,
                  report_status_code(session_so_far, directory, st, q.status_code_type,
                                     q.status_code_value, q.instance, q.caller_id,
                                     q.data_type, q.data_size, payload_image(q.data_size)))
    /\ pending' = None
    /\ UNCHANGED <<target, directory, efi_pc, efi_ret, hid>>

\* hid_binding.install().expect(..): a failure panics
efi_main_install ==
    /\ target = "uefi"
    /\ efi_pc = "entry"
    /\ efi_pc' \in {"installed", "halted_install_failed"}
    /\ UNCHANGED <<target, directory, efi_ret, reports, lookups, found_lookups,
                   not_found_seen, last, pending, hid>>

\* one `let _ = log_telemetry(..)` of efi_main: the result is dropped; a panic
\* enters the image's panic handler, which logs and loops forever
efi_main_log(at, args, next) ==
    /\ target = "uefi"
    /\ efi_pc = at
    /\ reports < MaxReports
    /\ \E st \in ServiceStatuses :
          LET r == log_telemetry_internal(session_so_far, directory, st, args) IN
          /\ account("telemetry", args, r)
          /\ efi_pc' = IF r.outcome = "panicked" THEN "halted_in_telemetry" ELSE next
    /\ UNCHANGED <<target, directory, efi_ret, pending, hid>>

efi_main_log_info == efi_main_log("installed", efi_main_info_args, "logged_info")

efi_main_log_fatal == efi_main_log("logged_info", efi_main_fatal_args, "logged_fatal")

\* efi::Status::SUCCESS
efi_main_return ==
    /\ target = "uefi"
    /\ efi_pc = "logged_fatal"
    /\ efi_pc' = "returned"
    /\ efi_ret' = Some(SUCCESS)
    /\ UNCHANGED <<target, directory, reports, lookups, found_lookups, not_found_seen,
                   last, pending, hid>>

Next ==
    \/ InstallProtocol
    \/ UninstallProtocol
    \/ host_log_telemetry
    \/ efi_main_install
    \/ efi_main_log_info
    \/ efi_main_log_fatal
    \/ efi_main_return

Spec == Init /\ [][Next]_vars

\* the driver's HidFactory asks the receiver factory for the receivers of a controller
new_hid_receiver_list ==
    /\ target = "uefi"
    /\ Len(hid.returned) < MaxReceiverCalls
    /\ \E controller \in Handles :
          LET result == hid_receiver_list(hid, controller) IN
          hid' = [hid EXCEPT !.allocated = @ + Len(result[2]),
                             !.returned = Append(@, [controller |-> controller,
                                                     result |-> result])]
    /\ UNCHANGED <<target, directory, efi_pc, efi_ret, reports, lookups, found_lookups,
                   not_found_seen, last, pending>>

\* the driver image with its receiver factory built, before any controller is started
InitReceivers == Init /\ target = "uefi"

NextReceivers == new_hid_receiver_list

SpecReceivers == InitReceivers /\ [][NextReceivers]_vars

\* the std build alone, its callers using report_status_code with payload types of any size
InitCodec ==
    /\ target = "host"
    /\ directory \in DirectoryStates
    /\ efi_pc = "absent"
    /\ efi_ret = None
    /\ reports = 0
    /\ lookups = 0
    /\ found_lookups = 0
    /\ not_found_seen = FALSE
    /\ last = no_report
    /\ pending \in {Some(q) : q \in GenericRequests}
    /\ hid = no_receivers

NextCodec ==
    \/ InstallProtocol
    \/ UninstallProtocol
    \/ host_report_status_code

SpecCodec == InitCodec /\ [][NextCodec]_vars

-----------------------------------------------------------------------------
(* Reading a record back, by fixed byte offsets *)

\* the integer stored little-endian in bytes [off, off + 8), most significant byte first
u64_at(buf, off) == [i \in 1..8 |-> buf[off + 9 - i]]

\* the service invocation of the last report
the_call == last.calls[1]

\* the last report located the service and got as far as invoking it
invoked == last.located /\ Len(last.calls) > 0

\* a step that is a report call
ReportStep == reports' = reports + 1

-----------------------------------------------------------------------------
(* Properties *)

\* C1: a report that resolved and invoked the service has returned to its caller:
\* Ok(()) exactly if the service answered success, and otherwise the error
\* carrying the service's status.
C1_ReturnsServiceVerdict ==
    invoked =>
        /\ last.outcome = "returned"
        /\ (last.result = Some(Ok)) <=> (last.service_status = Some(SUCCESS))
        /\ last.result # Some(Ok) => last.result = Some(Err(last.service_status[1]))

\* C2: a telemetry report whose lookup succeeded has invoked the service exactly
\* once, with type 0x80000002 (MAJOR|ERROR_CODE) when is_fatal and 0x40000002
\* (MINOR|ERROR_CODE) otherwise, the caller's class_id as value, instance 0, and
\* a 68-byte record whose payload holds library_id, partner id, extra1, extra2
\* in this order, with the values the caller passed.
C2_InvocationArguments ==
    (last.kind = "telemetry" /\ last.located) =>
        /\ Len(last.calls) = 1
        /\ the_call.type = (IF last.args.is_fatal THEN <<128, 0, 0, 2>> ELSE <<64, 0, 0, 2>>)
        /\ the_call.value = last.args.class_id
        /\ the_call.instance = <<0, 0, 0, 0>>
        /\ Len(the_call.data) = 68
        /\ last.args.library_id # None =>
              Slice(the_call.data, 20, 36) = last.args.library_id[1]
        /\ last.args.ihv_id # None =>
              Slice(the_call.data, 36, 52) = last.args.ihv_id[1]
        /\ u64_at(the_call.data, 52) = last.args.extra_data1
        /\ u64_at(the_call.data, 60) = last.args.extra_data2

\* C2 witness: a fatal report with both ids supplied reached the service
C2_Witness ==
    /\ last.kind = "telemetry"
    /\ invoked
    /\ last.args.is_fatal
    /\ last.args.library_id # None
    /\ last.args.ihv_id # None

\* C3: in the service invocation of a report, caller_id points to the module's
\* own identity GUID when component_id is None and to X when it is Some(X); it
\* is never null.
C3_CallerId ==
    (last.kind = "telemetry" /\ last.located) =>
        /\ the_call.caller_id # None
        /\ last.args.component_id = None => the_call.caller_id[1] = CALLER_ID
        /\ last.args.component_id # None =>
              the_call.caller_id[1] = last.args.component_id[1]

\* C3 witness: a report without component_id reached the service
C3_Witness == last.kind = "telemetry" /\ invoked /\ last.args.component_id = None

\* C4: a report made while the service cannot be located returns the NOT_FOUND
\* error; in that call the service is not invoked and no record buffer is built.
C4_NotFoundWithoutRecord ==
    [][(ReportStep /\ directory # "present") =>
          /\ last'.outcome = "returned"
          /\ last'.result = Some(Err(NOT_FOUND))
          /\ last'.calls = <<>>
          /\ last'.record = <<>>]_vars

\* C4 witness: a report has looked the service up, not found it, and failed with NOT_FOUND
C4_Witness ==
    /\ last.kind = "telemetry"
    /\ last.lookups = 1
    /\ ~last.located
    /\ last.result = Some(Err(NOT_FOUND))

\* C5, as claimed: once a lookup has succeeded, no later step looks the service
\* up again.
C5_LookupAtMostOnce == [][found_lookups >= 1 => lookups' = lookups]_vars

\* C5, amended: every report call performs one lookup of its own, also after a
\* lookup has succeeded, and reaches the service exactly if the service is
\* registered at that moment.
C5_LookupOnEveryReport ==
    [][ReportStep =>
          /\ lookups' = lookups + 1
          /\ last'.located <=> (directory = "present")]_vars

\* C5 witness: two reports of one session have each located the service
C5_Witness == found_lookups >= 2

\* C6, as claimed: once a report has failed with NOT_FOUND, every later report
\* of the session fails with NOT_FOUND.
C6_NotFoundIsTerminal ==
    [][(not_found_seen /\ ReportStep) => last'.result = Some(Err(NOT_FOUND))]_vars

\* C6, amended: once a report has failed with NOT_FOUND, a later report of the
\* session fails with NOT_FOUND exactly if the service is still not registered
\* when that report is made.
C6_NotFoundOnlyWhileAbsent ==
    [][(not_found_seen /\ ReportStep) =>
          (last'.result = Some(Err(NOT_FOUND))) <=> (directory # "present")]_vars

\* C6 witness: after a NOT_FOUND failure a later report has reached the service
C6_Witness == not_found_seen /\ invoked

\* C7: once the driver binding is installed, efi_main is never halted by its
\* telemetry calls, and it returns SUCCESS.
C7_TelemetryNeverHaltsDriver ==
    /\ efi_pc # "halted_in_telemetry"
    /\ efi_pc = "returned" => efi_ret = Some(SUCCESS)

\* C8: the record built for a payload of S bytes is 20 + S bytes long (68 for
\* S = 48), bytes [0,2) encode 20, bytes [4,20) are the type_id GUID, the
\* payload occupies bytes [20, 20 + S), and this record is what the service gets.
C8_RecordLayout ==
    (last.kind = "generic" /\ last.located) =>
        LET S == last.request.data_size
            payload == payload_image(S)
        IN  /\ Len(last.record) = 20 + S
            /\ S = 48 => Len(last.record) = 68
            /\ u16_at(last.record, 0) = 20
            /\ Slice(last.record, 4, 20) = last.request.data_type
            /\ Slice(last.record, 20, 20 + S) = payload
            /\ the_call.data = last.record

\* C8 witness: a record for a 48-byte payload has been built and handed over
C8_Witness == last.kind = "generic" /\ invoked /\ last.request.data_size = 48

\* C9: in every record built, the 16-bit payload_size field at bytes [2,4)
\* equals the byte length of the payload.
C9_PayloadSizeField ==
    (last.kind = "generic" /\ last.located) =>
        u16_at(last.record, 2) = last.request.data_size

\* C10: in the payload of a telemetry record an absent library_id is the
\* all-zero GUID and an absent ihv id is the all-zero GUID, each whatever the
\* other is; a supplied id is stored unchanged; extra1 and extra2 are stored
\* unchanged whatever ids are present.
C10_AbsentIdsAreZero ==
    (last.kind = "telemetry" /\ last.located) =>
        /\ Slice(the_call.data, 20, 36) =
              (IF last.args.library_id = None THEN [i \in 1..16 |-> 0]
               ELSE last.args.library_id[1])
        /\ Slice(the_call.data, 36, 52) =
              (IF last.args.ihv_id = None THEN [i \in 1..16 |-> 0]
               ELSE last.args.ihv_id[1])
        /\ u64_at(the_call.data, 52) = last.args.extra_data1
        /\ u64_at(the_call.data, 60) = last.args.extra_data2

\* C10 witness: a report with library_id absent and the ihv id supplied reached the service
C10_Witness ==
    /\ last.kind = "telemetry"
    /\ invoked
    /\ last.args.library_id = None
    /\ last.args.ihv_id # None

\* the receivers of all lists returned so far, each with the call and place it came from
returned_receivers ==
    {<<c, k>> : c \in DOMAIN hid.returned, k \in 1..2}

\* C11: every new_hid_receiver_list call, for whatever controller and after
\* whatever earlier calls, has returned Ok with exactly two receivers, a newly
\* constructed pointer handler first and a newly constructed keyboard handler
\* second, and no receiver instance occurs in two calls or twice in one.
C11_FreshOrderedReceivers ==
    /\ \A c \in DOMAIN hid.returned :
          LET result == hid.returned[c].result IN
          /\ result[1] = "Ok"
          /\ Len(result[2]) = 2
          /\ result[2][1].value = [kind |-> "pointer", boot_services |-> "BOOT_SERVICES",
                                   agent |-> hid.agent[1]]
          /\ result[2][2].value = [kind |-> "keyboard", boot_services |-> "BOOT_SERVICES",
                                   agent |-> hid.agent[1]]
    /\ \A x, y \in returned_receivers :
          x # y => hid.returned[x[1]].result[2][x[2]].instance
                       # hid.returned[y[1]].result[2][y[2]].instance

\* C11 witness: lists have been returned for two different controllers and then
\* again for the first one
C11_Witness ==
    /\ Len(hid.returned) >= 3
    /\ hid.returned[1].controller # hid.returned[2].controller
    /\ hid.returned[3].controller = hid.returned[1].controller

====
